---------------------------- MODULE Spec2Model ----------------------------
(***************************************************************************)
(* Particle simulator: the particle store of SimulationSystem              *)
(* (AddParticle, AddParticleGrid), its view transform (GetViewMatrix,      *)
(* PixelToSimulationDistance) and the frame loop of main().                *)
(*                                                                         *)
(* Real-valued quantities (glm::vec2 components, float) are modelled as    *)
(* exact rationals <<numerator, denominator>> in lowest terms with a       *)
(* positive denominator; a vec2 is a pair <<x, y>> of rationals.           *)
(* Time is counted in ticks of half a fixed physics step.                  *)
(***************************************************************************)
EXTENDS Integers, Sequences, FiniteSets

VARIABLES
    m_bottomLeft,       \* SimulationSystem: domain corner, fixed at construction
    m_topRight,         \* SimulationSystem: domain corner, fixed at construction
    m_ParticleRadius,   \* SimulationSystem: unsigned particle radius
    m_SimWidth,         \* SimulationSystem: derived in the constructor
    m_SimHeight,        \* SimulationSystem: derived in the constructor
    m_Zoom,             \* SimulationSystem: zoom factor
    m_WindowWidth,      \* SimulationSystem: window width in pixels
    m_Particles,        \* SimulationSystem: the particle store (a vector)
    op,                 \* the last call made on the store, with its arguments
    lastQuery,          \* the last GetViewMatrix / PixelToSimulationDistance call and its result
    pc,                 \* main(): position in the frame loop
    steps,              \* main(): int steps of the current frame
    i,                  \* main(): loop index of the physics loop
    counter,            \* main(): frames since the window title was last updated
    accumulator,        \* Time: accumulated time not yet simulated (ticks)
    lastUpdate,         \* the last Time::update call: time before, frame time, result
    frame               \* what the current frame has done so far (clock queries, steps, reads)

simVars == <<m_bottomLeft, m_topRight, m_ParticleRadius, m_SimWidth, m_SimHeight,
             m_Zoom, m_WindowWidth>>
loopVars == <<pc, steps, i, counter, accumulator, lastUpdate, frame>>
vars == <<simVars, m_Particles, op, lastQuery, loopVars>>

----------------------------------------------------------------------------
(* Bounds of the model *)

\* largest rows / cols value requested of AddParticleGrid in the small domain
MaxCount == 3
\* AddParticle / AddParticleGrid are called while the store holds fewer particles
MaxParticles == 2
\* longest frame duration, in ticks, besides the 1000-step pause
MaxDt == 9
\* the configured maximum of fixed steps one Time::update may return
MaxSteps == 3

----------------------------------------------------------------------------
(* float arithmetic, exact *)

RECURSIVE Gcd(_, _)
Gcd(a, b) == IF b = 0 THEN a ELSE Gcd(b, a % b)

Abs(x) == IF x < 0 THEN -x ELSE x

Rat(n, d) ==
    LET s == IF d < 0 THEN -1 ELSE 1
        g == Gcd(Abs(n), Abs(d))
    IN  <<(s * n) \div g, (s * d) \div g>>

Float(n) == <<n, 1>>

FAdd(a, b) == Rat(a[1] * b[2] + b[1] * a[2], a[2] * b[2])
FSub(a, b) == Rat(a[1] * b[2] - b[1] * a[2], a[2] * b[2])
FMul(a, b) == Rat(a[1] * b[1], a[2] * b[2])
FDiv(a, b) == Rat(a[1] * b[2], a[2] * b[1])
FLt(a, b) == a[1] * b[2] < b[1] * a[2]
FLe(a, b) == a[1] * b[2] <= b[1] * a[2]
FMax(a, b) == IF FLt(a, b) THEN b ELSE a
FMin(a, b) == IF FLt(b, a) THEN b ELSE a
FAbs(a) == <<Abs(a[1]), a[2]>>

Vec2(x, y) == <<x, y>>
VAdd(a, b) == <<FAdd(a[1], b[1]), FAdd(a[2], b[2])>>
VSub(a, b) == <<FSub(a[1], b[1]), FSub(a[2], b[2])>>
VMax(a, b) == <<FMax(a[1], b[1]), FMax(a[2], b[2])>>
VMin(a, b) == <<FMin(a[1], b[1]), FMin(a[2], b[2])>>

----------------------------------------------------------------------------
(* The particle store *)

Particle(position, mass) == [position |-> position, mass |-> mass]

\* SimulationSystem::AddParticle on a store value: no check, always appended
PushParticle(store, position, mass) == Append(store, Particle(position, mass))


RECURSIVE PushAll(_, _, _)
\* the nested loops of AddParticleGrid: AddParticle for each position in turn
PushAll(store, positions, mass) ==
    IF positions = <<>> THEN store
    ELSE PushAll(PushParticle(store, Head(positions), mass), Tail(positions), mass)

----------------------------------------------------------------------------
(* SimulationSystem::AddParticleGrid, section by section *)

Radius == Float(m_ParticleRadius)
Diameter == Float(2 * m_ParticleRadius)

\* glm::max(bottomLeft, m_bottomLeft + vec2(radius))
GridBottomLeft(bottomLeft) == VMax(bottomLeft, VAdd(m_bottomLeft, Vec2(Radius, Radius)))

\* variant: the upper corner clamped to the domain itself, the radius forgotten
GridTopRightNoRadius(topRight) == VMin(topRight, m_topRight)

\* glm::min(topRight, m_topRight - vec2(radius))
GridTopRight(topRight) == VMin(topRight, VSub(m_topRight, Vec2(Radius, Radius)))

\* gridBottomLeft.x >= gridTopRight.x || gridBottomLeft.y >= gridTopRight.y
NoSpace(gbl, gtr) == FLe(gtr[1], gbl[1]) \/ FLe(gtr[2], gbl[2])

\* requiredWidth / requiredHeight for n particles with spacing s on one axis
RequiredSize(n, s) ==
    LET particles == Float(n * (2 * m_ParticleRadius))
    IN  IF n > 1 THEN FAdd(particles, FMul(Float(n - 1), s)) ELSE particles

\* variant: only the width is compared
DoesNotFitWidthOnly(rows, cols, spacing, gbl, gtr) ==
    FLt(FSub(gtr[1], gbl[1]), RequiredSize(cols, spacing[1]))

\* requiredWidth > available width || requiredHeight > available height
DoesNotFit(rows, cols, spacing, gbl, gtr) ==
    \/ FLt(FSub(gtr[1], gbl[1]), RequiredSize(cols, spacing[1]))
    \/ FLt(FSub(gtr[2], gbl[2]), RequiredSize(rows, spacing[2]))

\* (availableSpace.y / diameter) * (availableSpace.x / diameter) < rows * cols
TooMany(rows, cols, availableSpace) ==
    FLt(FMul(FDiv(availableSpace[2], Diameter), FDiv(availableSpace[1], Diameter)),
        Float(rows * cols))

\* finalSpacing on one axis with n particles
FinalSpacing(n, s, available) ==
    IF n = 1 THEN Float(0)
    ELSE IF FLt(Float(0), s) THEN s ELSE FDiv(available, Float(n - 1))

\* variant: the overlap test looks at the rows only
WouldOverlapRowsOnly(rows, cols, finalSpacing) ==
    rows > 1 /\ FLt(finalSpacing[2], Diameter)

\* the overlap test on finalSpacing
WouldOverlap(rows, cols, finalSpacing) ==
    LET minRequiredSpacing == Diameter
    IN  \/ cols > 1 /\ FLt(finalSpacing[1], minRequiredSpacing)
        \/ rows > 1 /\ FLt(finalSpacing[2], minRequiredSpacing)

\* gridSize(finalSpacing.x * (cols - 1), finalSpacing.y * (rows - 1))
GridSize(rows, cols, finalSpacing) ==
    Vec2(FMul(finalSpacing[1], Float(cols - 1)), FMul(finalSpacing[2], Float(rows - 1)))

\* variant: the free space is added whole instead of halved
StartCoordNoHalf(low, size, available) ==
    IF FLt(size, available) THEN FAdd(low, FSub(available, size)) ELSE low

\* startPos on one axis: centred when the grid is smaller than the available space
StartCoord(low, size, available) ==
    IF FLt(size, available) THEN FAdd(low, FDiv(FSub(available, size), Float(2))) ELSE low

StartPos(gbl, gridSize, availableSpace) ==
    Vec2(StartCoord(gbl[1], gridSize[1], availableSpace[1]),
         StartCoord(gbl[2], gridSize[2], availableSpace[2]))

\* position = startPos + vec2(col * finalSpacing.x, row * finalSpacing.y)
GridPosition(startPos, finalSpacing, row, col) ==
    VAdd(startPos, Vec2(FMul(Float(col), finalSpacing[1]), FMul(Float(row), finalSpacing[2])))

\* variant: the inner loop stops one column early (col < cols - 1)
GridPositionsShortRow(rows, cols, startPos, finalSpacing) ==
    [k \in 1..(rows * (cols - 1)) |->
        GridPosition(startPos, finalSpacing, (k - 1) \div (cols - 1), (k - 1) % (cols - 1))]

\* the positions in the order the loops visit them: rows outside, columns inside
GridPositions(rows, cols, startPos, finalSpacing) ==
    [k \in 1..(rows * cols) |->
        GridPosition(startPos, finalSpacing, (k - 1) \div cols, (k - 1) % cols)]

\* What one call does: the message it prints and the store it leaves.
GridCall(store, rows, cols, bottomLeft, topRight, spacing, mass) ==
    IF rows <= 0 \/ cols <= 0
    THEN [log |-> "Error: Values must be positive", store |-> store]
    ELSE
    LET gbl == GridBottomLeft(bottomLeft)
        gtr == GridTopRight(topRight)
    IN  IF NoSpace(gbl, gtr)
        THEN [log |-> "Error: Not enough space within bounds", store |-> store]
        ELSE IF DoesNotFit(rows, cols, spacing, gbl, gtr)
        THEN [log |-> "Error: Grid requires more units than available", store |-> store]
        ELSE
        LET availableSpace == VSub(gtr, gbl)
        IN  IF TooMany(rows, cols, availableSpace)
            THEN [log |-> "Error: Too many particles to fit", store |-> store]
            ELSE
            LET finalSpacing == Vec2(FinalSpacing(cols, spacing[1], availableSpace[1]),
                                     FinalSpacing(rows, spacing[2], availableSpace[2]))
            IN  IF WouldOverlap(rows, cols, finalSpacing)
                THEN [log |-> "Error: Particles would overlap", store |-> store]
                ELSE
                LET gridSize == GridSize(rows, cols, finalSpacing)
                    startPos == StartPos(gbl, gridSize, availableSpace)
                IN  [log |-> "Created grid",
                     store |-> PushAll(store,
                                       GridPositions(rows, cols, startPos, finalSpacing),
                                       mass)]

----------------------------------------------------------------------------
(* Construction and the calls made on a SimulationSystem *)

\* SimulationSystem(bottomLeft, topRight, particleRadius)
Constructed(bottomLeft, topRight, particleRadius) ==
    /\ m_Particles = <<>>
    /\ m_bottomLeft = bottomLeft
    /\ m_topRight = topRight
    /\ m_ParticleRadius = particleRadius
    /\ m_Zoom = Float(1)
    /\ m_WindowWidth = 800
    /\ m_SimHeight = FAbs(FSub(topRight[2], bottomLeft[2]))
    /\ m_SimWidth = FAbs(FSub(topRight[1], bottomLeft[1]))

\* the domains a simulation is constructed with: a small one, and the one
\* main() builds (2000 wide, 4:3, radius 10)
Domains ==
    { [bottomLeft |-> Vec2(Float(0), Float(0)), topRight |-> Vec2(Float(12), Float(10)),
       radius |-> 1],
      [bottomLeft |-> Vec2(Float(-1000), Float(-750)),
       topRight |-> Vec2(Float(1000), Float(750)), radius |-> 10] }

SmallDomain == m_ParticleRadius = 1

\* rows / cols requested
Counts == IF SmallDomain THEN (-1)..MaxCount ELSE {2, 100}

\* requested placement rectangles: one reaching beyond the domain, one inside it,
\* one that misses the domain
Rects ==
    IF SmallDomain
    THEN { [bottomLeft |-> Vec2(Float(-1), Float(-1)), topRight |-> Vec2(Float(13), Float(11))],
           [bottomLeft |-> Vec2(Float(2), Float(2)), topRight |-> Vec2(Float(9), Float(5))],
           [bottomLeft |-> Vec2(Float(11), Float(3)), topRight |-> Vec2(Float(20), Float(6))] }
    ELSE { [bottomLeft |-> m_bottomLeft, topRight |-> m_topRight] }

\* requested spacings: unspecified, a diameter or more, less than a diameter / negative
Spacings ==
    IF SmallDomain
    THEN { Vec2(Float(0), Float(0)),
           Vec2(Float(2 * m_ParticleRadius), Float(2 * m_ParticleRadius + 1)),
           Vec2(Float(m_ParticleRadius), Float(-2)) }
    ELSE { Vec2(Float(0), Float(0)), Vec2(Float(30), Float(0)) }

\* AddParticle's arguments: a position inside the domain, one on the edge of the
\* usable area, one outside the domain
ParticleInputs ==
    { [position |-> VAdd(m_bottomLeft, Vec2(Float(3 * m_ParticleRadius),
                                            Float(4 * m_ParticleRadius))),
       mass |-> Float(1)],
      [position |-> VSub(m_topRight, Vec2(Radius, Radius)), mass |-> Float(3)],
      [position |-> VAdd(m_topRight, Vec2(Float(5), Float(0))), mass |-> Rat(1, 2)] }

\* the grid main() asks for, scaled to the domain: everywhere, spacing left to the store
MainCounts == { 1, 2 }
MainRects == { [bottomLeft |-> m_bottomLeft, topRight |-> m_topRight] }
MainSpacings == { Vec2(Float(0), Float(0)) }

NoCall == [name |-> "none"]

Init ==
    /\ \E d \in Domains : Constructed(d.bottomLeft, d.topRight, d.radius)
    /\ op = NoCall
    /\ lastQuery = NoCall
    /\ pc = "setup"
    /\ steps = 0
    /\ i = 0
    /\ counter = 0
    /\ accumulator = 0
    /\ lastUpdate = NoCall
    /\ frame = [queries |-> 0, stepped |-> 0, reads |-> 0]

\* void AddParticle(const glm::vec2& position, float mass)
AddParticle ==
    /\ Len(m_Particles) < MaxParticles
    /\ \E arg \in ParticleInputs :
        /\ m_Particles' = PushParticle(m_Particles, arg.position, arg.mass)
        /\ op' = [name |-> "AddParticle", position |-> arg.position, mass |-> arg.mass,
                  before |-> Len(m_Particles)]
    /\ UNCHANGED <<simVars, lastQuery, loopVars>>

\* void AddParticleGrid(rows, cols, bottomLeft, topRight, spacing, mass)
AddParticleGridFrom(counts, rects, spacings) ==
    /\ Len(m_Particles) < MaxParticles
    /\ \E rows \in counts, cols \in counts, rect \in rects, spacing \in spacings :
        LET mass == Float(2)
            call == GridCall(m_Particles, rows, cols, rect.bottomLeft, rect.topRight,
                             spacing, mass)
        IN  /\ m_Particles' = call.store
            /\ op' = [name |-> "AddParticleGrid", rows |-> rows, cols |-> cols,
                      bottomLeft |-> rect.bottomLeft, topRight |-> rect.topRight,
                      spacing |-> spacing, mass |-> mass,
                      before |-> Len(m_Particles), log |-> call.log]
    /\ UNCHANGED <<simVars, lastQuery, loopVars>>

AddParticleGrid == AddParticleGridFrom(Counts, Rects, Spacings)

\* the call main() makes: the whole domain, spacing (0, 0)
AddParticleGridMain == AddParticleGridFrom(MainCounts, MainRects, MainSpacings)

----------------------------------------------------------------------------
(* SimulationSystem::GetViewMatrix and PixelToSimulationDistance *)

\* variant: the view follows the first particle once there is one
CenterOnParticles ==
    IF m_Particles = <<>>
    THEN Vec2(FMul(FAdd(m_topRight[1], m_bottomLeft[1]), Rat(1, 2)),
              FMul(FAdd(m_topRight[2], m_bottomLeft[2]), Rat(1, 2)))
    ELSE m_Particles[1].position

\* center = (m_topRight + m_bottomLeft) * 0.5f
Center ==
    LET sum == VAdd(m_topRight, m_bottomLeft)
    IN  Vec2(FMul(sum[1], Rat(1, 2)), FMul(sum[2], Rat(1, 2)))

\* glm::ortho(left, right, bottom, top, zNear, zFar): the entries that are not 0 or 1
Ortho(left, right, bottom, top, zNear, zFar) ==
    [m00 |-> FDiv(Float(2), FSub(right, left)),
     m11 |-> FDiv(Float(2), FSub(top, bottom)),
     m22 |-> FDiv(Float(-2), FSub(zFar, zNear)),
     m30 |-> FDiv(FSub(Float(0), FAdd(right, left)), FSub(right, left)),
     m31 |-> FDiv(FSub(Float(0), FAdd(top, bottom)), FSub(top, bottom)),
     m32 |-> FDiv(FSub(Float(0), FAdd(zFar, zNear)), FSub(zFar, zNear))]

\* glm::mat4 GetViewMatrix(float aspectRatio, float simulationBorderOffset) const
ViewMatrix(aspectRatio, simulationBorderOffset) ==
    LET simWidth == FSub(m_topRight[1], m_bottomLeft[1])
        centerX == Center[1]
        centerY == FSub(Center[2], simulationBorderOffset)
        viewWidth == FDiv(simWidth, m_Zoom)
        viewHeight == FDiv(viewWidth, aspectRatio)
        halfW == FDiv(viewWidth, Float(2))
        halfH == FDiv(viewHeight, Float(2))
    IN  Ortho(FSub(centerX, halfW), FAdd(centerX, halfW),
              FSub(centerY, halfH), FAdd(centerY, halfH),
              Float(-1), Float(1))

\* float PixelToSimulationDistance(float pixelDistance) const
PixelDistance(pixelDistance) ==
    LET simWidth == FSub(m_topRight[1], m_bottomLeft[1])
        viewWidth == FDiv(simWidth, m_Zoom)
        scale == FDiv(viewWidth, Float(m_WindowWidth))
    IN  FMul(pixelDistance, scale)

AspectRatios == { Rat(4, 3), Float(1) }
BorderOffsets == { Float(0), Float(50) }
PixelDistances == { Float(1), Float(15) }

GetViewMatrix ==
    /\ \E aspectRatio \in AspectRatios, offset \in BorderOffsets :
        /\ lastQuery' = [name |-> "GetViewMatrix", args |-> <<aspectRatio, offset>>,
                         zoom |-> m_Zoom, result |-> ViewMatrix(aspectRatio, offset)]
        /\ op' = [name |-> "GetViewMatrix"]
    /\ UNCHANGED <<simVars, m_Particles, loopVars>>

PixelToSimulationDistance ==
    /\ \E pixelDistance \in PixelDistances :
        /\ lastQuery' = [name |-> "PixelToSimulationDistance", args |-> <<pixelDistance>>,
                         zoom |-> m_Zoom, result |-> PixelDistance(pixelDistance)]
        /\ op' = [name |-> "PixelToSimulationDistance"]
    /\ UNCHANGED <<simVars, m_Particles, loopVars>>

\* the particle store: any sequence of AddParticle and AddParticleGrid calls
Next ==
    \/ AddParticle
    \/ AddParticleGrid

\* the view transform, queried between calls that fill the store
ViewNext ==
    \/ AddParticle
    \/ AddParticleGridMain
    \/ GetViewMatrix
    \/ PixelToSimulationDistance

ViewSpec == Init /\ [][ViewNext]_vars

Spec == Init /\ [][Next]_vars


----------------------------------------------------------------------------
(* The frame loop of main(), with the Time manager and the physics step *)

\* ticks (half steps) in one fixed step of 1/60 s
FixedStep == 2

\* ++counter > 75
TitleEvery == 75

\* float zoom = 0.7f
MainZoom == Rat(7, 10)

\* frame durations the timing source reports: up to MaxDt ticks, or a long pause
\* of 1000 fixed steps
FrameDurations == (0..MaxDt) \cup { 1000 * FixedStep }

\* variant: the time beyond the cap is carried over to the next call
TimeUpdateCarryOver(acc, dt) ==
    LET total == acc + dt
        whole == total \div FixedStep
    IN  IF whole > MaxSteps
        THEN [steps |-> MaxSteps, accumulator |-> total - MaxSteps * FixedStep]
        ELSE [steps |-> whole, accumulator |-> total % FixedStep]

\* int Time::update(): whole fixed steps in the accumulated time, capped; the
\* remainder is kept, the time beyond the cap is dropped
TimeUpdate(acc, dt) ==
    LET total == acc + dt
        whole == total \div FixedStep
    IN  IF whole > MaxSteps
        THEN [steps |-> MaxSteps, accumulator |-> 0]
        ELSE [steps |-> whole, accumulator |-> total % FixedStep]

\* what the particles can be pushed by in one step: nothing, or half the domain
Displacements ==
    { Vec2(Float(0), Float(0)),
      Vec2(FDiv(m_SimWidth, Float(2)), FSub(Float(0), FDiv(m_SimHeight, Float(2)))) }

\* wall collision: the position is clamped to the domain less one radius
ClampToWalls(position) ==
    VMax(VAdd(m_bottomLeft, Vec2(Radius, Radius)),
         VMin(VSub(m_topRight, Vec2(Radius, Radius)), position))

\* UpdatePhysics(sim, dt, useSpacePartitioning) on the store: every particle moves
\* and stays inside the walls; none is added or removed
PhysicsStep(store, displacement) ==
    [k \in 1..Len(store) |->
        [store[k] EXCEPT !.position = ClampToWalls(VAdd(@, displacement))]]

\* variant: the physics loop runs once more (i <= steps)
LoopCondInclusive(index, count) == index <= count

\* for (int i = 0; i < steps; i++)
LoopCond(index, count) == index < count

NewFrame == [queries |-> 0, stepped |-> 0, reads |-> 0]

\* main() up to the loop: the simulation is constructed (with WINDOW_WIDTH), the
\* grid is added and the time manager is created
LoopInit ==
    /\ \E d \in Domains :
        /\ m_bottomLeft = d.bottomLeft
        /\ m_topRight = d.topRight
        /\ m_ParticleRadius = d.radius
        /\ m_Zoom = Float(1)
        /\ m_WindowWidth = 1280
        /\ m_SimHeight = FAbs(FSub(d.topRight[2], d.bottomLeft[2]))
        /\ m_SimWidth = FAbs(FSub(d.topRight[1], d.bottomLeft[1]))
    /\ \E rows \in MainCounts, cols \in MainCounts :
        m_Particles = GridCall(<<>>, rows, cols, m_bottomLeft, m_topRight,
                               Vec2(Float(0), Float(0)), Float(1)).store
    /\ op = NoCall
    /\ lastQuery = NoCall
    /\ pc = "while"
    /\ steps = 0
    /\ i = 0
    /\ counter = 0
    /\ accumulator = 0
    /\ lastUpdate = NoCall
    /\ frame = NewFrame

\* while (!glfwWindowShouldClose(window))
WhileTest ==
    /\ pc = "while"
    /\ \E shouldClose \in BOOLEAN :
        pc' = IF shouldClose THEN "exit" ELSE "begin"
    /\ frame' = NewFrame
    /\ UNCHANGED <<simVars, m_Particles, op, lastQuery, steps, i, counter, accumulator,
                   lastUpdate>>

\* glClear; sim.SetZoom(zoom); borderMVP = GetProjMatrix() * GetViewMatrix()
FrameBegin ==
    /\ pc = "begin"
    /\ m_Zoom' = MainZoom
    /\ pc' = "update"
    /\ UNCHANGED <<m_bottomLeft, m_topRight, m_ParticleRadius, m_SimWidth, m_SimHeight,
                   m_WindowWidth, m_Particles, op, lastQuery, steps, i, counter,
                   accumulator, lastUpdate, frame>>

\* int steps = timeManager.update();
ClockUpdate ==
    /\ pc = "update"
    /\ \E dt \in FrameDurations :
        LET r == TimeUpdate(accumulator, dt)
        IN  /\ steps' = r.steps
            /\ accumulator' = r.accumulator
            /\ lastUpdate' = [name |-> "update", before |-> accumulator, dt |-> dt,
                              steps |-> r.steps, after |-> r.accumulator]
    /\ i' = 0
    /\ frame' = [frame EXCEPT !.queries = @ + 1]
    /\ pc' = "for"
    /\ UNCHANGED <<simVars, m_Particles, op, lastQuery, counter>>

\* loop body: UpdatePhysics(sim, timeManager.getFixedDeltaTime(), ...); i++
UpdatePhysics ==
    /\ pc = "for"
    /\ LoopCond(i, steps)
    /\ \E displacement \in Displacements :
        m_Particles' = PhysicsStep(m_Particles, displacement)
    /\ i' = i + 1
    /\ frame' = [frame EXCEPT !.stepped = @ + 1]
    /\ UNCHANGED <<simVars, op, lastQuery, pc, steps, counter, accumulator, lastUpdate>>

\* the loop condition fails: on to the renderer
ForExit ==
    /\ pc = "for"
    /\ ~LoopCond(i, steps)
    /\ pc' = "UpdateBuffers"
    /\ UNCHANGED <<simVars, m_Particles, op, lastQuery, steps, i, counter, accumulator,
                   lastUpdate, frame>>

\* renderer.UpdateBuffers(): reads the particle store
UpdateBuffers ==
    /\ pc = "UpdateBuffers"
    /\ frame' = [frame EXCEPT !.reads = @ + 1]
    /\ pc' = "Render"
    /\ UNCHANGED <<simVars, m_Particles, op, lastQuery, steps, i, counter, accumulator,
                   lastUpdate>>

\* renderer.Render(): draws the particles
Render ==
    /\ pc = "Render"
    /\ frame' = [frame EXCEPT !.reads = @ + 1]
    /\ pc' = "present"
    /\ UNCHANGED <<simVars, m_Particles, op, lastQuery, steps, i, counter, accumulator,
                   lastUpdate>>

\* BoundsRenderer; if (++counter > 75) { UpdateWindowTitle; counter = 0; } swap; poll
Present ==
    /\ pc = "present"
    /\ counter' = IF counter + 1 > TitleEvery THEN 0 ELSE counter + 1
    /\ pc' = "while"
    /\ UNCHANGED <<simVars, m_Particles, op, lastQuery, steps, i, accumulator,
                   lastUpdate, frame>>

LoopNext ==
    \/ WhileTest
    \/ FrameBegin
    \/ ClockUpdate
    \/ UpdatePhysics
    \/ ForExit
    \/ UpdateBuffers
    \/ Render
    \/ Present

LoopSpec == LoopInit /\ [][LoopNext]_vars

----------------------------------------------------------------------------
(* Properties of the particle store *)

GridCalled == op.name = "AddParticleGrid"
GridCreated == GridCalled /\ op.log = "Created grid"

\* the particles the last call appended
Added == SubSeq(m_Particles, op.before + 1, Len(m_Particles))

\* the requested rectangle cut to the domain less one radius, per axis (1 = x, 2 = y)
ShrunkLow(axis) == FMax(op.bottomLeft[axis], FAdd(m_bottomLeft[axis], Radius))
ShrunkHigh(axis) == FMin(op.topRight[axis], FSub(m_topRight[axis], Radius))
ShrunkExtent(axis) == FSub(ShrunkHigh(axis), ShrunkLow(axis))

AxisCount(axis) == IF axis = 1 THEN op.cols ELSE op.rows

\* the centre coordinate of the k-th column (axis 1) or row (axis 2), counted from 0
Coord(axis, k) ==
    IF axis = 1 THEN Added[k + 1].position[1] ELSE Added[k * op.cols + 1].position[2]

\* every particle of the block sits at its column's x and its row's y
BlockIsGrid ==
    /\ Len(Added) = op.rows * op.cols
    /\ \A row \in 0..(op.rows - 1), col \in 0..(op.cols - 1) :
        Added[row * op.cols + col + 1].position = Vec2(Coord(1, col), Coord(2, row))

DistSq(p, q) ==
    LET dx == FSub(p[1], q[1])
        dy == FSub(p[2], q[2])
    IN  FAdd(FMul(dx, dx), FMul(dy, dy))

\* C1: AddParticleGrid is all-or-nothing. Every call leaves the particles already
\* stored at their indices, unchanged, and either appends exactly rows x cols
\* particles (the request was accepted) or leaves the store as it was.
C1_GridAllOrNothing ==
    [][ op'.name = "AddParticleGrid" =>
          /\ Len(m_Particles') >= Len(m_Particles)
          /\ SubSeq(m_Particles', 1, Len(m_Particles)) = m_Particles
          /\ IF op'.log = "Created grid"
             THEN /\ op'.rows > 0 /\ op'.cols > 0
                  /\ Len(m_Particles') = Len(m_Particles) + op'.rows * op'.cols
             ELSE m_Particles' = m_Particles ]_vars

C1_Witness ==
    /\ GridCreated
    /\ op.before >= 1
    /\ op.rows * op.cols >= 4
    /\ Len(m_Particles) = op.before + op.rows * op.cols

WouldBeSpacing(axis) ==
    IF FLt(Float(0), op.spacing[axis]) THEN op.spacing[axis]
    ELSE FDiv(ShrunkExtent(axis), Float(AxisCount(axis) - 1))

Footprint(n, s) == FAdd(Float(n * 2 * m_ParticleRadius), FMul(Float(n - 1), s))

FootprintExceeds ==
    \/ FLt(ShrunkExtent(1), Footprint(op.cols, op.spacing[1]))
    \/ FLt(ShrunkExtent(2), Footprint(op.rows, op.spacing[2]))

\* C4: no particle is added when the footprint exceeds the shrunk rectangle along
\* either axis; a 100 x 100 request with radius 10 in (-1000,-750)-(1000,750) is
\* rejected.
C4_GridFootprintRejected ==
    GridCalled =>
        /\ FootprintExceeds => Len(m_Particles) = op.before
        /\ (op.rows = 100 /\ op.cols = 100 /\ m_ParticleRadius = 10)
              => (FootprintExceeds /\ Len(m_Particles) = op.before)

C4_Witness ==
    /\ GridCalled
    /\ op.rows = 100 /\ op.cols = 100 /\ m_ParticleRadius = 10
    /\ m_bottomLeft = Vec2(Float(-1000), Float(-750))
    /\ m_topRight = Vec2(Float(1000), Float(750))
    /\ FootprintExceeds
    /\ op.log = "Error: Grid requires more units than available"
    /\ Len(m_Particles) = op.before

InUsableBounds(position) ==
    \A axis \in {1, 2} :
        /\ FLe(FAdd(m_bottomLeft[axis], Radius), position[axis])
        /\ FLe(position[axis], FSub(m_topRight[axis], Radius))

\* C6: AddParticle appends exactly one particle with the given position and mass
\* when the position is within the usable bounds and leaves the store unchanged
\* when it is not, so that no particle outside the usable bounds is ever stored.
C6_AddParticleChecksBounds ==
    /\ op.name = "AddParticle" =>
         IF InUsableBounds(op.position)
         THEN /\ Len(m_Particles) = op.before + 1
              /\ m_Particles[Len(m_Particles)] = Particle(op.position, op.mass)
         ELSE Len(m_Particles) = op.before
    /\ \A k \in 1..Len(m_Particles) : InUsableBounds(m_Particles[k].position)

\* C10: the spacing validated is the spacing realised: in an accepted grid with a
\* positive spacing s on an axis with more than one particle, adjacent centres are
\* 2 x radius + s apart, so that the block occupies the validated footprint.
C10_ValidatedSpacingRealised ==
    GridCreated =>
        \A axis \in {1, 2} :
            (AxisCount(axis) > 1 /\ FLt(Float(0), op.spacing[axis])) =>
                /\ \A k \in 0..(AxisCount(axis) - 2) :
                      FSub(Coord(axis, k + 1), Coord(axis, k))
                          = FAdd(Diameter, op.spacing[axis])
                /\ FAdd(FSub(Coord(axis, AxisCount(axis) - 1), Coord(axis, 0)), Diameter)
                      = Footprint(AxisCount(axis), op.spacing[axis])

----------------------------------------------------------------------------
(* Properties of the view transform *)

QueryNames == { "GetViewMatrix", "PixelToSimulationDistance" }

\* C9: GetViewMatrix and PixelToSimulationDistance change nothing of the
\* simulation, and a call with the arguments (and zoom) of the previous query
\* returns the previous result, whatever was added to the store in between.
C9_ViewIsPure ==
    [][ op'.name \in QueryNames =>
          /\ UNCHANGED <<simVars, m_Particles>>
          /\ ( /\ lastQuery.name = lastQuery'.name
               /\ lastQuery.args = lastQuery'.args
               /\ lastQuery.zoom = lastQuery'.zoom )
             => lastQuery'.result = lastQuery.result ]_vars

C9_Witness ==
    /\ op.name = "GetViewMatrix"
    /\ lastQuery.name = "GetViewMatrix"
    /\ Len(m_Particles) >= 2
    /\ lastQuery.result = ViewMatrix(lastQuery.args[1], lastQuery.args[2])

----------------------------------------------------------------------------
(* Properties of the frame loop *)

\* what a frame has done so far, against the position in the loop
FrameOrder ==
    /\ frame.queries <= 1
    /\ pc \in {"begin", "update"} => frame = NewFrame
    /\ pc = "for" =>
         /\ frame.queries = 1 /\ frame.reads = 0
         /\ frame.stepped = i /\ i <= steps
    /\ pc = "UpdateBuffers" =>
         frame.queries = 1 /\ frame.reads = 0 /\ frame.stepped = steps
    /\ frame.reads > 0 => (frame.queries = 1 /\ frame.stepped = steps)

\* C7: in every frame the clock is queried once, then the physics step runs
\* exactly `steps` times, and only then does the renderer read the store; no read
\* falls between two steps of a frame, and the loop never changes the particle
\* count.
C7_FrameOrder ==
    /\ []FrameOrder
    /\ [][ /\ Len(m_Particles') = Len(m_Particles)
           /\ frame'.stepped > frame.stepped =>
                (frame.reads = 0 /\ frame.queries = 1 /\ frame'.stepped = frame.stepped + 1)
           /\ frame'.reads > frame.reads => frame.stepped = steps
           /\ frame'.queries > frame.queries => (frame.stepped = 0 /\ frame.reads = 0) ]_vars

C7_Witness ==
    /\ pc = "present"
    /\ steps >= 2
    /\ frame = [queries |-> 1, stepped |-> steps, reads |-> 2]
    /\ Len(m_Particles) >= 2

\* C8: Time::update returns the whole fixed steps in the accumulated time and
\* keeps the remainder, which is less than one step (3.5 steps of time: 3 steps,
\* half a step kept); beyond the maximum it returns the maximum and drops the
\* excess, so it never returns more than the maximum.
C8_FixedStepClock ==
    lastUpdate.name = "update" =>
        LET total == lastUpdate.before + lastUpdate.dt
            whole == total \div FixedStep
        IN  /\ lastUpdate.steps <= MaxSteps
            /\ lastUpdate.after >= 0 /\ lastUpdate.after < FixedStep
            /\ whole <= MaxSteps =>
                 /\ lastUpdate.steps = whole
                 /\ lastUpdate.steps * FixedStep + lastUpdate.after = total
            /\ whole > MaxSteps =>
                 /\ lastUpdate.steps = MaxSteps
                 /\ lastUpdate.after = 0
            /\ (lastUpdate.before = 0 /\ 2 * lastUpdate.dt = 7 * FixedStep) =>
                 (lastUpdate.steps = 3 /\ 2 * lastUpdate.after = FixedStep)
            /\ lastUpdate.dt = 1000 * FixedStep => lastUpdate.steps = MaxSteps
            /\ steps = lastUpdate.steps /\ accumulator = lastUpdate.after

C8_Witness ==
    /\ lastUpdate.name = "update"
    /\ lastUpdate.before = 1
    /\ lastUpdate.dt = 1000 * FixedStep
    /\ lastUpdate.steps = MaxSteps
    /\ accumulator = 0
    /\ pc = "for"

============================================================================
